---- MODULE Spec2Model ----
(***************************************************************************)
(* Model of the cai-agent front-end:                                       *)
(*   - the two connection-details route handlers (token issuers):          *)
(*       src/frontend/app/api/connection-details/route.ts  ("route")       *)
(*       src/unnamed/part_001                              ("derive")      *)
(*   - the Dropdown component (src/frontend/components/Dropdown.tsx and    *)
(*     its restyled copy src/unnamed/part_000, same logic).                *)
(*                                                                         *)
(* Strings that the code only compares or copies are TLA+ strings.  A JSON *)
(* text is a sequence of lexical tokens; JSON.parse and JSON.stringify are *)
(* modelled on token sequences by a recursive-descent parser and a         *)
(* serializer, so that "is valid JSON" and round trips are computed.       *)
(***************************************************************************)
EXTENDS Integers, Sequences, FiniteSets, TLC

VARIABLES
  env,            \* process.env: key -> [present, value]
  reqs,           \* per in-flight request: position and locals of GET
  isOpen,         \* Dropdown: rendered state of useState(false)
  selectedPerson, \* Dropdown: rendered state of useState("Ram")
  uiPc,           \* Dropdown: position inside the running event handler
  event,          \* Dropdown: the event whose handler is running
  pending,        \* Dropdown: state updates queued by the running handler
  clicks,         \* Dropdown: options the user has clicked, in order
  calls           \* Dropdown: arguments onSelect was invoked with, in order

issuerVars == <<env, reqs>>
uiVars == <<isOpen, selectedPerson, uiPc, event, pending, clicks, calls>>
vars == <<env, reqs, isOpen, selectedPerson, uiPc, event, pending, clicks, calls>>

(***************************************************************************)
(* Bounds of the model.                                                    *)
(***************************************************************************)
MaxMetaLen == 5   \* longest metadata text, in tokens
MaxSlots == 2     \* concurrent requests
MaxCalls == 3     \* option choices made on the Dropdown

(***************************************************************************)
(* JSON texts as token sequences.                                          *)
(***************************************************************************)
Tok(k, v) == [k |-> k, v |-> v]
LBRACE == Tok("punct", "{")
RBRACE == Tok("punct", "}")
LBRACK == Tok("punct", "[")
RBRACK == Tok("punct", "]")
COLON == Tok("punct", ":")
COMMA == Tok("punct", ",")
StrTok(s) == Tok("string", s)
NullTok == Tok("literal", "null")

\* JSON values
JString(s) == [t |-> "string", v |-> s]
JNull == [t |-> "null", v |-> ""]
JArray(elems) == [t |-> "array", v |-> elems]
JObject(members) == [t |-> "object", v |-> members]   \* members: <<key, value>> in insertion order

\* obj[key] = val on an ordinary object: overwrite in place or append
RECURSIVE SetMember(_, _, _)
SetMember(members, key, val) ==
  IF members = <<>> THEN << <<key, val>> >>
  ELSE IF Head(members)[1] = key THEN << <<key, val>> >> \o Tail(members)
  ELSE <<Head(members)>> \o SetMember(Tail(members), key, val)

HasMember(members, key) == \E i \in 1..Len(members) : members[i][1] = key
GetMember(members, key) == members[CHOOSE i \in 1..Len(members) : members[i][1] = key][2]

ParseFail == [ok |-> FALSE, val |-> JNull, next |-> 0]
ParseOk(val, next) == [ok |-> TRUE, val |-> val, next |-> next]

RECURSIVE ParseValue(_, _)
RECURSIVE ParseMembers(_, _, _)
RECURSIVE ParseElements(_, _, _)

\* value at position i of toks
ParseValue(toks, i) ==
  IF i > Len(toks) THEN ParseFail
  ELSE LET t == toks[i] IN
    IF t.k = "string" THEN ParseOk(JString(t.v), i + 1)
    ELSE IF t = NullTok THEN ParseOk(JNull, i + 1)
    ELSE IF t = LBRACE THEN
      IF i + 1 <= Len(toks) /\ toks[i + 1] = RBRACE
        THEN ParseOk(JObject(<<>>), i + 2)
        ELSE ParseMembers(toks, i + 1, <<>>)
    ELSE IF t = LBRACK THEN
      IF i + 1 <= Len(toks) /\ toks[i + 1] = RBRACK
        THEN ParseOk(JArray(<<>>), i + 2)
        ELSE ParseElements(toks, i + 1, <<>>)
    ELSE ParseFail

\* string : value, then "," and more members, or "}"; a repeated key keeps the last value
ParseMembers(toks, i, acc) ==
  IF i + 1 > Len(toks) \/ toks[i].k # "string" \/ toks[i + 1] # COLON THEN ParseFail
  ELSE LET r == ParseValue(toks, i + 2) IN
    IF ~r.ok \/ r.next > Len(toks) THEN ParseFail
    ELSE LET acc2 == SetMember(acc, toks[i].v, r.val) IN
      IF toks[r.next] = RBRACE THEN ParseOk(JObject(acc2), r.next + 1)
      ELSE IF toks[r.next] = COMMA THEN ParseMembers(toks, r.next + 1, acc2)
      ELSE ParseFail

\* value, then "," and more elements, or "]"
ParseElements(toks, i, acc) ==
  LET r == ParseValue(toks, i) IN
    IF ~r.ok \/ r.next > Len(toks) THEN ParseFail
    ELSE LET acc2 == Append(acc, r.val) IN
      IF toks[r.next] = RBRACK THEN ParseOk(JArray(acc2), r.next + 1)
      ELSE IF toks[r.next] = COMMA THEN ParseElements(toks, r.next + 1, acc2)
      ELSE ParseFail

\* JSON.parse(text): ok = FALSE stands for the SyntaxError it throws
JSONparse(text) ==
  LET r == ParseValue(text, 1) IN
    IF r.ok /\ r.next = Len(text) + 1 THEN r ELSE ParseFail

RECURSIVE JSONstringify(_)
RECURSIVE StringifyMembers(_)
RECURSIVE StringifyElements(_)

StringifyMembers(members) ==
  IF members = <<>> THEN <<>>
  ELSE <<StrTok(Head(members)[1]), COLON>> \o JSONstringify(Head(members)[2])
       \o (IF Tail(members) = <<>> THEN <<>> ELSE <<COMMA>> \o StringifyMembers(Tail(members)))

StringifyElements(elems) ==
  IF elems = <<>> THEN <<>>
  ELSE JSONstringify(Head(elems))
       \o (IF Tail(elems) = <<>> THEN <<>> ELSE <<COMMA>> \o StringifyElements(Tail(elems)))

\* JSON.stringify(value) of a value JSON.parse produced or an object literal of strings
JSONstringify(val) ==
  IF val.t = "string" THEN <<StrTok(val.v)>>
  ELSE IF val.t = "null" THEN <<NullTok>>
  ELSE IF val.t = "array" THEN <<LBRACK>> \o StringifyElements(val.v) \o <<RBRACK>>
  ELSE <<LBRACE>> \o StringifyMembers(val.v) \o <<RBRACE>>

\* ToBoolean(value), the test `||` makes
Truthy(val) ==
  IF val.t = "string" THEN val.v # ""
  ELSE IF val.t = "null" THEN FALSE
  ELSE TRUE

(***************************************************************************)
(* Token issuer: query parameters, environment, credential requests.       *)
(***************************************************************************)
\* searchParams.get(name): null when the parameter is absent
Param(s) == [present |-> TRUE, value |-> s]
NoParam == [present |-> FALSE, value |-> ""]
MetaParam(text) == [present |-> TRUE, value |-> text]
NoMeta == [present |-> FALSE, value |-> <<>>]

Query(roomName, participantName, metadata, region) ==
  [roomName |-> roomName, participantName |-> participantName,
   metadata |-> metadata, region |-> region]

\* the check `x === null` in place of `!x`: an empty string passes
FalsyNullOnly(p) == ~p.present

\* !x for a string-or-null x
Falsy(p) == ~p.present \/ p.value = ""

\* process.env[key]; a key is the sequence of the pieces it is concatenated from
EnvGet(key) == IF key \in DOMAIN env THEN env[key] ELSE NoParam

API_KEY == EnvGet(<<"LIVEKIT_API_KEY">>)
API_SECRET == EnvGet(<<"LIVEKIT_API_SECRET">>)
LIVEKIT_URL == EnvGet(<<"LIVEKIT_URL">>)

\* String.prototype.toUpperCase on the strings of the model
ToUpperCase(s) ==
  CASE s = "eu" -> "EU"
    [] s = "us" -> "US"
    [] OTHER -> s

\* getLiveKitURL(region): ok = FALSE stands for the Error it throws
getLiveKitURL(region) ==
  LET targetKey == IF ~Falsy(region)
                     THEN <<ToUpperCase("LIVEKIT_URL_"), ToUpperCase(region.value)>>
                     ELSE <<"LIVEKIT_URL">>
      url == EnvGet(targetKey)
  IN IF Falsy(url) THEN [ok |-> FALSE, url |-> ""] ELSE [ok |-> TRUE, url |-> url.value]

\* a grant set that leaves canSubscribe off
createParticipantTokenNoSubscribe(userInfo, roomName) ==
  [apiKey |-> API_KEY, apiSecret |-> API_SECRET,
   identity |-> userInfo.identity, name |-> userInfo.name, metadata |-> userInfo.metadata,
   ttl |-> "5m",
   video |-> [room |-> roomName, roomJoin |-> TRUE, canPublish |-> TRUE,
              canPublishData |-> TRUE, canSubscribe |-> FALSE]]

\* the AccessToken as it stands when toJwt() is called on it
createParticipantToken(userInfo, roomName) ==
  [apiKey |-> API_KEY, apiSecret |-> API_SECRET,
   identity |-> userInfo.identity, name |-> userInfo.name, metadata |-> userInfo.metadata,
   ttl |-> "5m",
   video |-> [room |-> roomName, roomJoin |-> TRUE, canPublish |-> TRUE,
              canPublishData |-> TRUE, canSubscribe |-> TRUE]]

\* the signed token a resolved toJwt() yields: opaque to the handler, decodable by the server
Jwt(at) == [jwt |-> at]

\* randomString(4) of @/lib/client-utils: some 4-character alphanumeric string
RandomStrings == {"k3x9", "a0b7"}

\* no repair: the text is forwarded as received
metadataRouteUnrepaired(metadata, participantName) == metadata

\* route.ts: keep the text if it parses, else the default object
metadataRoute(metadata, participantName) ==
  IF JSONparse(metadata).ok THEN metadata
  ELSE JSONstringify(JObject(<< <<"selectedPerson", JString(participantName)>> >>))

\* a catch block that forwards the text instead of replacing it
metadataDeriveForward(metadata, participantName) ==
  IF JSONparse(metadata).ok THEN JSONstringify(JSONparse(metadata).val) ELSE metadata

\* part_001: derive botName and re-serialize; any exception in the try block gives the default
metadataDerive(metadata, participantName) ==
  LET parsed == JSONparse(metadata)
      default == JSONstringify(JObject(<< <<"selectedPerson", JString(participantName)>>,
                                          <<"botName", JString(participantName)>> >>))
  IN IF ~parsed.ok THEN default                        \* SyntaxError
     ELSE LET parsedMetadata == parsed.val IN
       IF parsedMetadata.t = "null" THEN default       \* TypeError: property of null
       ELSE IF parsedMetadata.t = "string" THEN default \* TypeError: property set on a primitive (module code is strict)
       ELSE IF parsedMetadata.t = "array"              \* botName is no index: not serialized
         THEN JSONstringify(parsedMetadata)
       ELSE LET botName ==
                  IF HasMember(parsedMetadata.v, "selectedPerson")
                     /\ Truthy(GetMember(parsedMetadata.v, "selectedPerson"))
                    THEN GetMember(parsedMetadata.v, "selectedPerson")
                    ELSE JString(participantName)
            IN JSONstringify(JObject(SetMember(parsedMetadata.v, "botName", botName)))

Response(status, text, json) == [status |-> status, text |-> text, json |-> json]

\* promise: the state of the promise toJwt() returned
Idle == [pc |-> "idle", handler |-> "none", query |-> Query(NoParam, NoParam, NoMeta, NoParam),
         signCalls |-> <<>>, promise |-> "none", response |-> <<>>]

\* GET up to its await (or its early return): one run-to-completion segment
GETbegin(r, handler, q, suffix) ==
  LET roomName == q.roomName
      participantName == q.participantName
      metadata0 == IF q.metadata.present THEN q.metadata.value ELSE <<>>
  IN IF Falsy(roomName) \/ Falsy(participantName)
       THEN reqs' = [reqs EXCEPT ![r] =
              [pc |-> "done", handler |-> handler, query |-> q, signCalls |-> <<>>,
               promise |-> "none", response |-> <<Response(400, "Missing required parameters", <<>>)>>]]
       ELSE LET metadata == IF handler = "route"
                              THEN metadataRoute(metadata0, participantName.value)
                              ELSE metadataDerive(metadata0, participantName.value)
                participantIdentity == <<participantName.value, "__", suffix>>
                at == createParticipantToken(
                        [identity |-> participantIdentity, name |-> participantName.value,
                         metadata |-> metadata],
                        roomName.value)
            IN reqs' = [reqs EXCEPT ![r] =
                 [pc |-> "awaiting", handler |-> handler, query |-> q,
                  signCalls |-> <<at>>, promise |-> "pending", response |-> <<>>]]

\* route.ts GET receives one of the requests of queries
GETroute(r, queries, suffixes) ==
  /\ reqs[r].pc = "idle"
  /\ \E q \in queries, suffix \in suffixes : GETbegin(r, "route", q, suffix)
  /\ UNCHANGED <<env, uiVars>>

\* part_001 GET receives one of the requests of queries
GETderive(r, queries, suffixes) ==
  /\ reqs[r].pc = "idle"
  /\ \E q \in queries, suffix \in suffixes : GETbegin(r, "derive", q, suffix)
  /\ UNCHANGED <<env, uiVars>>

\* toJwt() resolved: the 200 response
GETresolve(r) ==
  /\ reqs[r].pc = "awaiting"
  /\ LET participantToken == Jwt(reqs[r].signCalls[Len(reqs[r].signCalls)])
         body == [serverUrl |-> LIVEKIT_URL,
                  roomName |-> reqs[r].query.roomName.value,
                  participantToken |-> participantToken,
                  participantName |-> reqs[r].query.participantName.value]
     IN reqs' = [reqs EXCEPT ![r].pc = "done", ![r].promise = "fulfilled",
                             ![r].response = <<Response(200, "", <<body>>)>>]
  /\ UNCHANGED <<env, uiVars>>

\* a catch block that signs a second time before giving up
GETrejectRetry(r) ==
  /\ reqs[r].pc = "awaiting"
  /\ IF Len(reqs[r].signCalls) < 2
       THEN reqs' = [reqs EXCEPT ![r].signCalls = Append(@, @[1])]
       ELSE reqs' = [reqs EXCEPT ![r].pc = "done", ![r].promise = "rejected",
                                 ![r].response = <<Response(500, "Internal Server Error", <<>>)>>]
  /\ UNCHANGED <<env, uiVars>>

\* one AccessToken shared by the requests in flight: its rejection fails them all
GETrejectShared(r) ==
  /\ reqs[r].pc = "awaiting"
  /\ reqs' = [s \in DOMAIN reqs |->
               IF reqs[s].pc = "awaiting"
                 THEN [reqs[s] EXCEPT !.pc = "done", !.promise = "rejected",
                         !.response = <<Response(500, "Internal Server Error", <<>>)>>]
                 ELSE reqs[s]]
  /\ UNCHANGED <<env, uiVars>>

\* toJwt() rejected: the catch block
GETreject(r) ==
  /\ reqs[r].pc = "awaiting"
  /\ reqs' = [reqs EXCEPT ![r].pc = "done", ![r].promise = "rejected",
                          ![r].response = <<Response(500, "Internal Server Error", <<>>)>>]
  /\ UNCHANGED <<env, uiVars>>

(***************************************************************************)
(* Dropdown.  A handler queues state updates (setIsOpen, setSelectedPerson)*)
(* and React applies them, in order, when the handler has returned.        *)
(***************************************************************************)
people == <<"Ram", "Shyam", "Ketan">>

SetIsOpenUpdate(b) == [hook |-> "setIsOpen", open |-> b, name |-> ""]
SetSelectedPersonUpdate(p) == [hook |-> "setSelectedPerson", open |-> FALSE, name |-> p]
NoEvent == [kind |-> "none", person |-> ""]

\* the state a hook holds once the queued updates are applied in order
RECURSIVE ApplyOpen(_, _)
ApplyOpen(cur, queue) ==
  IF queue = <<>> THEN cur
  ELSE ApplyOpen(IF Head(queue).hook = "setIsOpen" THEN Head(queue).open ELSE cur, Tail(queue))

RECURSIVE ApplySelected(_, _)
ApplySelected(cur, queue) ==
  IF queue = <<>> THEN cur
  ELSE ApplySelected(IF Head(queue).hook = "setSelectedPerson" THEN Head(queue).name ELSE cur,
                     Tail(queue))

\* setIsOpen(true) in place of setIsOpen(!isOpen)
ToggleValueAlwaysOpen(open) == TRUE

\* the value the button's onClick passes to setIsOpen
ToggleValue(open) == ~open

\* button onClick: setIsOpen(!isOpen)
Toggle ==
  /\ uiPc = "idle"
  /\ event' = [kind |-> "toggle", person |-> ""]
  /\ pending' = Append(pending, SetIsOpenUpdate(ToggleValue(isOpen)))
  /\ uiPc' = "commit"
  /\ UNCHANGED <<isOpen, selectedPerson, clicks, calls, issuerVars>>

\* li onClick, first statement: setSelectedPerson(person); the list is rendered only when isOpen
ChooseSetSelectedPerson(i) ==
  /\ uiPc = "idle"
  /\ isOpen
  /\ Len(clicks) < MaxCalls
  /\ event' = [kind |-> "choose", person |-> people[i]]
  /\ clicks' = Append(clicks, people[i])
  /\ pending' = Append(pending, SetSelectedPersonUpdate(people[i]))
  /\ uiPc' = "setIsOpen"
  /\ UNCHANGED <<isOpen, selectedPerson, calls, issuerVars>>

\* the handler without its setIsOpen(false)
ChooseSkipSetIsOpen ==
  /\ uiPc = "setIsOpen"
  /\ uiPc' = "onSelect"
  /\ UNCHANGED <<isOpen, selectedPerson, event, pending, clicks, calls, issuerVars>>

\* li onClick, second statement: setIsOpen(false)
ChooseSetIsOpen ==
  /\ uiPc = "setIsOpen"
  /\ pending' = Append(pending, SetIsOpenUpdate(FALSE))
  /\ uiPc' = "onSelect"
  /\ UNCHANGED <<isOpen, selectedPerson, event, clicks, calls, issuerVars>>

\* li onClick, third statement: onSelect(person)
ChooseOnSelect ==
  /\ uiPc = "onSelect"
  /\ calls' = Append(calls, event.person)
  /\ uiPc' = "commit"
  /\ UNCHANGED <<isOpen, selectedPerson, event, pending, clicks, issuerVars>>

\* the handler has returned: React applies the queued updates and re-renders
Commit ==
  /\ uiPc = "commit"
  /\ isOpen' = ApplyOpen(isOpen, pending)
  /\ selectedPerson' = ApplySelected(selectedPerson, pending)
  /\ pending' = <<>>
  /\ uiPc' = "idle"
  /\ UNCHANGED <<event, clicks, calls, issuerVars>>

(***************************************************************************)
(* Initial states and specifications.                                      *)
(***************************************************************************)
Env(url, urlEU) ==
  (<<"LIVEKIT_API_KEY">> :> Param("devkey")) @@ (<<"LIVEKIT_API_SECRET">> :> Param("secret"))
  @@ (<<"LIVEKIT_URL">> :> url) @@ (<<"LIVEKIT_URL_", "EU">> :> urlEU)

InitUI ==
  /\ isOpen = FALSE
  /\ selectedPerson = "Ram"
  /\ uiPc = "idle"
  /\ event = NoEvent
  /\ pending = <<>>
  /\ clicks = <<>>
  /\ calls = <<>>

\* texts of at most n tokens over alphabet
RECURSIVE Texts(_, _)
Texts(alphabet, n) ==
  IF n = 0 THEN {<<>>}
  ELSE LET shorter == Texts(alphabet, n - 1)
       IN shorter \cup {Append(t, a) : t \in {u \in shorter : Len(u) = n - 1}, a \in alphabet}

MetaAlphabet ==
  {LBRACE, RBRACE, LBRACK, RBRACK, COLON, StrTok("selectedPerson"), StrTok("bob"), StrTok("")}

\* longer texts: null, several members or elements, a repeated key, a botName
\* already present, a trailing comma
ExtraTexts ==
  LET sp == StrTok("selectedPerson")
      bob == StrTok("bob")
  IN {<<NullTok>>,
      <<LBRACE, sp, COLON, NullTok, RBRACE>>,
      <<LBRACK, bob, COMMA, StrTok(""), RBRACK>>,
      <<LBRACE, bob, COLON, bob, COMMA, sp, COLON, bob, RBRACE>>,
      <<LBRACE, StrTok("botName"), COLON, StrTok(""), COMMA, sp, COLON, bob, RBRACE>>,
      <<LBRACE, sp, COLON, bob, COMMA, sp, COLON, StrTok(""), RBRACE>>,
      <<LBRACE, sp, COLON, bob, COMMA, RBRACE>>}

\* requests of the metadata study: every text over MetaAlphabet, the longer texts,
\* or no metadata parameter
MetaQueries ==
  {Query(Param("lobby"), Param("alice"), m, NoParam) :
     m \in {NoMeta} \cup {MetaParam(t) : t \in Texts(MetaAlphabet, MaxMetaLen) \cup ExtraTexts}}

InitIssuer(envs, slots) ==
  /\ env \in envs
  /\ reqs = [r \in slots |-> Idle]

InitMeta == InitIssuer({Env(Param("ws://livekit:7880"), NoParam)}, {1}) /\ InitUI

NextMeta ==
  \/ GETroute(1, MetaQueries, {"k3x9"})
  \/ GETderive(1, MetaQueries, {"k3x9"})
  \/ GETresolve(1)
  \/ GETreject(1)

SpecMeta == InitMeta /\ [][NextMeta]_vars

\* requests of the request study: present, empty and absent parameters, a few metadata texts
SampleObject == <<LBRACE, StrTok("selectedPerson"), COLON, StrTok("bob"), RBRACE>>
Queries ==
  {Query(room, name, m, region) :
     room \in {NoParam, Param(""), Param("lobby")},
     name \in {NoParam, Param(""), Param("alice"), Param("bob")},
     m \in {NoMeta, MetaParam(<<>>), MetaParam(SampleObject), MetaParam(<<LBRACE>>)},
     region \in {NoParam, Param("eu"), Param("us")}}

Envs ==
  {Env(url, urlEU) : url \in {NoParam, Param("ws://livekit:7880")},
                     urlEU \in {NoParam, Param("wss://eu.livekit")}}

Init == InitIssuer(Envs, {1}) /\ InitUI

Next ==
  \/ GETroute(1, Queries, RandomStrings)
  \/ GETderive(1, Queries, RandomStrings)
  \/ GETresolve(1)
  \/ GETreject(1)

Spec == Init /\ [][Next]_vars

\* concurrent requests
Slots == 1..MaxSlots
ConcQueries ==
  {Query(room, name, m, NoParam) :
     room \in {NoParam, Param("lobby")},
     name \in {Param("alice"), Param("bob")},
     m \in {NoMeta, MetaParam(SampleObject)}}

InitConc == InitIssuer({Env(Param("ws://livekit:7880"), NoParam)}, Slots) /\ InitUI

NextConc ==
  \/ \E r \in Slots : GETroute(r, ConcQueries, RandomStrings)
  \/ \E r \in Slots : GETderive(r, ConcQueries, RandomStrings)
  \/ \E r \in Slots : GETresolve(r)
  \/ \E r \in Slots : GETreject(r)

SpecConc == InitConc /\ [][NextConc]_vars

\* the Dropdown alone
InitDropdown == InitIssuer({Env(Param("ws://livekit:7880"), NoParam)}, {1}) /\ InitUI

NextUI ==
  \/ Toggle
  \/ \E i \in 1..Len(people) : ChooseSetSelectedPerson(i)
  \/ ChooseSetIsOpen
  \/ ChooseOnSelect
  \/ Commit

SpecUI == InitDropdown /\ [][NextUI]_vars

(***************************************************************************)
(* Properties.                                                             *)
(***************************************************************************)
Requests == DOMAIN reqs
RawMetadata(r) == IF reqs[r].query.metadata.present THEN reqs[r].query.metadata.value ELSE <<>>
NamesGiven(r) ==
  /\ reqs[r].query.roomName.present /\ reqs[r].query.roomName.value # ""
  /\ reqs[r].query.participantName.present /\ reqs[r].query.participantName.value # ""
Received(r) == reqs[r].pc # "idle"
IsStringMember(val, key) ==
  /\ val.t = "object"
  /\ HasMember(val.v, key)
  /\ GetMember(val.v, key).t = "string"

\* C1: a request whose roomName or participantName is absent or empty is answered
\* with status 400, whatever its metadata, and no signing call is made for it.
C1_MissingParams400 ==
  \A r \in Requests :
    (Received(r) /\ ~NamesGiven(r)) =>
      /\ reqs[r].pc = "done"
      /\ Len(reqs[r].response) = 1
      /\ reqs[r].response[1].status = 400
      /\ reqs[r].signCalls = <<>>
      /\ reqs[r].promise = "none"

\* a request with an empty roomName and valid metadata has been answered
C1_Witness ==
  \E r \in Requests :
    /\ reqs[r].pc = "done"
    /\ reqs[r].query.roomName = Param("")
    /\ reqs[r].query.participantName = Param("alice")
    /\ reqs[r].query.metadata = MetaParam(SampleObject)
    /\ reqs[r].handler = "derive"

\* C2: when the metadata parameter is not valid JSON (omitted and empty included),
\* the metadata of the signing call is the text of the default object of the
\* handler, and so never the raw text.
C2_InvalidMetadataDefault ==
  \A r \in Requests :
    (reqs[r].signCalls # <<>> /\ ~JSONparse(RawMetadata(r)).ok) =>
      LET name == StrTok(reqs[r].query.participantName.value)
          sent == reqs[r].signCalls[1].metadata
      IN /\ reqs[r].handler = "route" =>
              sent = <<LBRACE, StrTok("selectedPerson"), COLON, name, RBRACE>>
         /\ reqs[r].handler = "derive" =>
              sent = <<LBRACE, StrTok("selectedPerson"), COLON, name, COMMA,
                       StrTok("botName"), COLON, name, RBRACE>>
         /\ sent # RawMetadata(r)

\* a request with a non-empty invalid metadata text has reached the signing call
C2_Witness ==
  \E r \in Requests :
    /\ reqs[r].signCalls # <<>>
    /\ RawMetadata(r) = <<LBRACE, StrTok("selectedPerson"), COLON>>
    /\ reqs[r].handler = "route"

\* C3: in the derive handler, valid metadata JSON with selectedPerson: "X" gives
\* botName "X" in the metadata of the signing call; valid metadata JSON without
\* selectedPerson gives botName equal to participantName.
C3_BotNameDerived ==
  \A r \in Requests :
    LET parsed == JSONparse(RawMetadata(r)) IN
    (reqs[r].handler = "derive" /\ reqs[r].signCalls # <<>> /\ parsed.ok) =>
      LET out == JSONparse(reqs[r].signCalls[1].metadata)
          hasSelected == parsed.val.t = "object" /\ HasMember(parsed.val.v, "selectedPerson")
      IN /\ IsStringMember(parsed.val, "selectedPerson") =>
              /\ out.ok
              /\ IsStringMember(out.val, "botName")
              /\ GetMember(out.val.v, "botName").v = GetMember(parsed.val.v, "selectedPerson").v
         /\ ~hasSelected =>
              /\ out.ok
              /\ IsStringMember(out.val, "botName")
              /\ GetMember(out.val.v, "botName").v = reqs[r].query.participantName.value

\* C4: with roomName and participantName given, whatever the metadata, the request
\* reaches the signing call with metadata that is valid JSON, and it ends in an
\* error response only if the signing call was rejected.
C4_MetadataAlwaysValidJSON ==
  \A r \in Requests :
    (Received(r) /\ NamesGiven(r)) =>
      /\ Len(reqs[r].signCalls) = 1
      /\ JSONparse(reqs[r].signCalls[1].metadata).ok
      /\ reqs[r].promise # "none"
      /\ (reqs[r].pc = "done" /\ reqs[r].promise # "rejected") =>
            reqs[r].response[1].status = 200

\* a request whose metadata is valid JSON but no object was answered 200 by the
\* derive handler
C4_Witness ==
  \E r \in Requests :
    /\ reqs[r].handler = "derive"
    /\ reqs[r].pc = "done"
    /\ reqs[r].response[1].status = 200
    /\ RawMetadata(r) = <<StrTok("bob")>>

\* C5: a rejected signing call gives status 500 with the body "Internal Server
\* Error", no ConnectionDetails, and the signing call was made exactly once.
C5_SigningFailure500 ==
  \A r \in Requests :
    reqs[r].promise = "rejected" =>
      /\ reqs[r].pc = "done"
      /\ reqs[r].response = <<Response(500, "Internal Server Error", <<>>)>>
      /\ Len(reqs[r].signCalls) = 1

\* the signing call of a valid request was rejected
C5_Witness ==
  \E r \in Requests :
    /\ reqs[r].promise = "rejected"
    /\ NamesGiven(r)
    /\ reqs[r].handler = "route"

\* C6: every credential request has ttl 5 minutes, the room of the request, exactly
\* the four grants set to true, and the participantName as display name.
C6_FixedTtlAndGrants ==
  \A r \in Requests :
    \A i \in 1..Len(reqs[r].signCalls) :
      /\ reqs[r].signCalls[i].ttl = "5m"
      /\ reqs[r].signCalls[i].video =
            [room |-> reqs[r].query.roomName.value, roomJoin |-> TRUE, canPublish |-> TRUE,
             canPublishData |-> TRUE, canSubscribe |-> TRUE]
      /\ reqs[r].signCalls[i].name = reqs[r].query.participantName.value

\* a credential request was made for a request that carries metadata and a region
C6_Witness ==
  \E r \in Requests :
    /\ Len(reqs[r].signCalls) = 1
    /\ reqs[r].query.metadata = MetaParam(SampleObject)
    /\ reqs[r].query.region = Param("eu")
    /\ reqs[r].query.participantName = Param("bob")

\* C7: in route.ts the serverUrl of the response is the entry getLiveKitURL resolves
\* for the region of the request, and the request fails with status 500 when that
\* entry is absent.
C7_ServerUrlResolved ==
  \A r \in Requests :
    (reqs[r].handler = "route" /\ reqs[r].pc = "done" /\ reqs[r].promise = "fulfilled") =>
      LET resolved == getLiveKitURL(reqs[r].query.region) IN
        IF resolved.ok
          THEN /\ reqs[r].response[1].status = 200
               /\ reqs[r].response[1].json[1].serverUrl = Param(resolved.url)
          ELSE /\ reqs[r].response[1].status = 500
               /\ reqs[r].response[1].json = <<>>

LastChosen == IF clicks = <<>> THEN "Ram" ELSE clicks[Len(clicks)]
HandlerReturns == uiPc = "commit" /\ uiPc' = "idle"

\* C8: the Dropdown starts Closed showing "Ram"; a toggle flips Closed and Open and
\* changes neither the selection nor the callback log; a choice, possible only
\* while Open, shows the chosen option, has invoked onSelect exactly once with it
\* and leaves the list Closed; between handlers the selection is one of the three
\* people and is the last option chosen ("Ram" if none).
C8_SelectorStateMachine ==
  /\ (~isOpen /\ selectedPerson = "Ram")
  /\ [](uiPc = "idle" =>
          /\ selectedPerson \in {"Ram", "Shyam", "Ketan"}
          /\ selectedPerson = LastChosen
          /\ calls = clicks)
  /\ [][(uiPc = "idle" /\ event'.kind = "toggle" /\ uiPc' # "idle") => calls' = calls]_vars
  /\ [][(HandlerReturns /\ event.kind = "toggle") =>
          /\ isOpen' = ~isOpen
          /\ selectedPerson' = selectedPerson
          /\ calls' = calls]_vars
  /\ [][(HandlerReturns /\ event.kind = "choose") =>
          /\ isOpen
          /\ ~isOpen'
          /\ selectedPerson' = event.person
          /\ calls' = calls
          /\ calls = clicks
          /\ calls[Len(calls)] = event.person]_vars

\* "Shyam" then "Ketan" were chosen and the list was opened again
C8_Witness ==
  /\ uiPc = "idle"
  /\ clicks = <<"Shyam", "Ketan">>
  /\ calls = <<"Shyam", "Ketan">>
  /\ selectedPerson = "Ketan"
  /\ isOpen

SameInputs(r, s) ==
  /\ reqs[r].handler = reqs[s].handler
  /\ reqs[r].query = reqs[s].query
  /\ reqs[r].pc = reqs[s].pc
  /\ reqs[r].promise = reqs[s].promise
  /\ Len(reqs[r].signCalls) = Len(reqs[s].signCalls)
  /\ \A i \in 1..Len(reqs[r].signCalls) :
        reqs[r].signCalls[i].identity = reqs[s].signCalls[i].identity

\* C9: requests in flight share no mutable state: two requests with the same
\* handler, parameters, random suffix and signing result are at the same outcome
\* (credential request and response), whatever the other requests did; a step of
\* one request changes no other request, and the configuration never changes.
C9_RequestsIndependent ==
  /\ [](\A r, s \in Requests :
          SameInputs(r, s) =>
            /\ reqs[r].signCalls = reqs[s].signCalls
            /\ reqs[r].response = reqs[s].response)
  /\ [][\A r \in Requests :
          reqs'[r] # reqs[r] => \A s \in Requests \ {r} : reqs'[s] = reqs[s]]_vars
  /\ [][env' = env]_vars

\* of two requests with the same parameters in flight together, one was answered
\* 500 and the other 200
C9_Witness ==
  \E r, s \in Requests :
    /\ r # s
    /\ reqs[r].query = reqs[s].query
    /\ reqs[r].handler = reqs[s].handler
    /\ reqs[r].promise = "rejected"
    /\ reqs[s].promise = "fulfilled"
    /\ reqs[s].response[1].status = 200

\* C10 as stated: when onSelect is invoked, the transition to Closed has not been
\* requested yet.
C10_CallbackBeforeClose ==
  [][calls' # calls => \A i \in 1..Len(pending) : pending[i].hook # "setIsOpen"]_vars

\* C10 as the code has it: when onSelect is invoked with the chosen option, the
\* selection update and then the transition to Closed have both been requested,
\* and neither is applied yet.
C10_CloseRequestedBeforeCallback ==
  [][calls' # calls =>
       /\ pending = <<SetSelectedPersonUpdate(event.person), SetIsOpenUpdate(FALSE)>>
       /\ calls' = Append(calls, event.person)
       /\ isOpen /\ isOpen'
       /\ selectedPerson' = selectedPerson]_vars

\* onSelect has been invoked for a choice and its handler has not returned yet
C10_Witness ==
  /\ uiPc = "commit"
  /\ event = [kind |-> "choose", person |-> "Shyam"]
  /\ calls = <<"Shyam">>

====
